---- MODULE Spec2Model ----
(***************************************************************************)
(* Model of OSASocket.py: the OSA class (session constructor with the      *)
(* open/password handshake, send/recv wrappers, command catalogue) run by  *)
(* a Python 3 interpreter (the source uses TimeoutError, str.encode() and  *)
(* bytes.decode()).                                                        *)
(*                                                                         *)
(* Text (Python str) is a sequence of characters: one-character strings    *)
(* for ASCII, the token EAcute for the non-ASCII character U+00E9.         *)
(* Bytes is a sequence of byte tokens: one-character strings for ASCII     *)
(* bytes, "0xNN" for bytes above 0x7F.  A value handed to socket.send      *)
(* carries its Python type, [type |-> "str" | "bytes", val |-> ...].       *)
(***************************************************************************)
EXTENDS Integers, Sequences, FiniteSets, TLC

VARIABLES pc, failed, cred, io, last, calls, sock

vars == <<pc, failed, cred, io, last, calls, sock>>

(* ------------------------------ bounds --------------------------------- *)

\* number of method calls made on a constructed session
MaxCalls == 1

(* ------------------------- program constants --------------------------- *)

\* recv(self, bufsize = 1024)
DefaultBufsize == 1024

\* recStr[:5]
ReadyLen == 5

(* ----------------------------- text, bytes ----------------------------- *)

Min(a, b) == IF a < b THEN a ELSE b

\* a Python str literal as a sequence of characters
RECURSIVE Chars(_)
Chars(s) == IF s = "" THEN <<>> ELSE <<Head(s)>> \o Chars(Tail(s))

EAcute == "U+00E9"

\* str.encode(): UTF-8, one byte per ASCII character, two for U+00E9
EncodeChar(c) == IF c = EAcute THEN <<"0xC3", "0xA9">> ELSE <<c>>

RECURSIVE Encode(_)
Encode(t) == IF t = <<>> THEN <<>> ELSE EncodeChar(Head(t)) \o Encode(Tail(t))

IsAsciiByte(b) == Len(b) = 1

\* bytes.decode(): strict UTF-8; Undecodable marks a UnicodeDecodeError
Undecodable == <<"UnicodeDecodeError">>

RECURSIVE Decode(_)
Decode(b) ==
    IF b = <<>> THEN <<>>
    ELSE IF IsAsciiByte(Head(b))
         THEN LET r == Decode(Tail(b))
              IN  IF r = Undecodable THEN Undecodable ELSE <<Head(b)>> \o r
    ELSE IF Len(b) >= 2 /\ b[1] = "0xC3" /\ b[2] = "0xA9"
         THEN LET r == Decode(SubSeq(b, 3, Len(b)))
              IN  IF r = Undecodable THEN Undecodable ELSE <<EAcute>> \o r
    ELSE Undecodable

LowerCase == Chars("abcdefghijklmnopqrstuvwxyz")
UpperCase == Chars("ABCDEFGHIJKLMNOPQRSTUVWXYZ")

\* str.upper()
UpperChar(c) ==
    IF \E i \in 1..Len(LowerCase) : LowerCase[i] = c
    THEN UpperCase[CHOOSE i \in 1..Len(LowerCase) : LowerCase[i] = c]
    ELSE c

Upper(t) == [i \in 1..Len(t) |-> UpperChar(t[i])]

Digits == Chars("0123456789")

\* str(n) for an int
RECURSIVE NatToStr(_)
NatToStr(n) == IF n < 10 THEN <<Digits[n + 1]>>
               ELSE NatToStr(n \div 10) \o <<Digits[(n % 10) + 1]>>

IntToStr(n) == IF n < 0 THEN <<"-">> \o NatToStr(0 - n) ELSE NatToStr(n)

\* s[:k]
Slice(s, k) == SubSeq(s, 1, Min(k, Len(s)))

\* sub in s
Contains(s, sub) ==
    \E i \in 0..(Len(s) - Len(sub)) : SubSeq(s, i + 1, i + Len(sub)) = sub

Str(t)   == [type |-> "str", val |-> t]
Bytes(b) == [type |-> "bytes", val |-> b]

(* ------------------------------ transport ------------------------------ *)

\* what one socket.send call does with its buffer
Accept == {"full", "short", "error"}

\* what the transport does with the k buffers of one call, one after the
\* other; at most one of them is cut short or fails
AcceptPlans(k) ==
    {acc \in [1..k -> Accept] : Cardinality({i \in 1..k : acc[i] # "full"}) <= 1}

\* the number of bytes the transport takes of a buffer of n bytes
Accepted(n, a) == IF a = "short" /\ n >= 2 THEN n - 1 ELSE n

\* socket.send(data): a str is rejected with TypeError before anything is
\* written; otherwise one write that may be short, or an OSError
SockSend(st, data, a) ==
    IF st.exc # "none" THEN st
    ELSE IF data.type # "bytes" THEN [st EXCEPT !.exc = "TypeError"]
    ELSE IF a = "error" THEN [st EXCEPT !.exc = "OSError"]
    ELSE LET n == Accepted(Len(data.val), a)
         IN  [st EXCEPT !.io = Append(@, [ev |-> "send", of |-> data.val,
                                          sent |-> SubSeq(data.val, 1, n)]),
                        !.n = n]

\* what one socket.recv call yields: a timeout, or the bytes read
RecvTimeout == [kind |-> "timeout", data |-> <<>>]
RecvData(b) == [kind |-> "data", data |-> b]

(* ------------------------------- OSA ----------------------------------- *)

Output(st, msg) == IF st.exc # "none" THEN st ELSE [st EXCEPT !.out = Append(@, msg)]

\* OSA.recv: one read of at most bufsize bytes, decoded
Recv(st, r, bufsize) ==
    IF st.exc # "none" THEN st
    ELSE IF r.kind = "timeout" THEN [st EXCEPT !.exc = "timeout"]
    ELSE LET b == SubSeq(r.data, 1, Min(bufsize, Len(r.data)))
             t == Decode(b)
         IN  IF t = Undecodable THEN [st EXCEPT !.exc = "UnicodeDecodeError"]
             ELSE [st EXCEPT !.io = Append(@, [ev |-> "recv", text |-> t]),
                             !.ret = t]

SendResend(st, sendStr, a) ==
    LET b  == Encode(sendStr)
        s1 == SockSend(st, Bytes(b), a)
        s2 == IF s1.exc = "none" /\ s1.n < Len(b)
              THEN SockSend(s1, Bytes(SubSeq(b, s1.n + 1, Len(b))), "full")
              ELSE s1
    IN  IF s2.exc # "none" THEN s2 ELSE Output(s2, "Command sent successfully")

\* OSA.send
Send(st, sendStr, a) ==
    LET s1 == SockSend(st, Bytes(Encode(sendStr)), a)
    IN  IF s1.exc # "none" THEN s1
        ELSE IF s1.n = Len(sendStr)
             THEN Output(s1, "Command sent successfully")
             ELSE Output(s1, "Command sent uncompletely")

ExitWinReturns == {"SystemExit", "none"}

\* exitWin(): input() returns or hits end of input, then exit()
ExitWin == {"SystemExit", "EOFError"}

\* the local state of the call in progress
Frame == [io |-> io, out |-> last.out, exc |-> "none", n |-> 0, ret |-> "None",
          direct |-> 0]

Raise(st, e) == IF st.exc # "none" THEN st ELSE [st EXCEPT !.exc = e]

Range(f) == {f[i] : i \in DOMAIN f}

\* OSA(ip, port, username, password): the constructor's arguments
Credentials ==
    {[username |-> Chars("anonymous"), password |-> Chars(" ")],
     [username |-> <<"j", EAcute>>, password |-> Chars("pw")]}

\* outcomes of socket.connect
ConnectOutcomes == {"ok", "TimeoutError", "OSError"}

\* what the instrument side can make a read yield
FirstReplies ==
    {RecvTimeout, RecvData(<<>>), RecvData(Encode(Chars("ready"))),
     RecvData(<<"0xFF">>)}

SecondReplies ==
    {RecvTimeout, RecvData(<<>>), RecvData(Encode(Chars("ready"))),
     RecvData(Encode(Chars("ready ok"))), RecvData(Encode(Chars("read"))),
     RecvData(Encode(Chars("Ready"))), RecvData(Encode(Chars(" ready"))),
     RecvData(Encode(<<EAcute>>)), RecvData(<<"0xC3">>)}

Init ==
    /\ pc = "connect"
    /\ failed = FALSE
    /\ cred \in Credentials
    /\ io = <<>>
    /\ last = [op |-> "__init__", arg |-> <<>>, exc |-> "none", out |-> <<>>,
               ret |-> "None", base |-> 0, direct |-> 0]
    /\ calls = 0
    /\ sock = "none"

InitStepSwallow(st, next) ==
    /\ io' = st.io
    /\ last' = [last EXCEPT !.out = st.out, !.exc = st.exc]
    /\ pc' = next
    /\ failed' = (failed \/ st.exc # "none")
    /\ UNCHANGED <<cred, calls>>

\* the effect of a step of __init__ that ran to frame st and goes on at next
InitStep(st, next) ==
    /\ io' = st.io
    /\ last' = [last EXCEPT !.out = st.out, !.exc = st.exc]
    /\ pc' = IF st.exc # "none" THEN "dead" ELSE next
    /\ failed' = (failed \/ st.exc # "none")
    /\ UNCHANGED <<cred, calls>>

\* a failure branch of __init__: the message, then exitWin()
InitFail(st, msg, next) ==
    \E e \in ExitWin :
        LET s1 == Output(st, msg)
        IN  /\ io' = s1.io
            /\ last' = [last EXCEPT !.out = s1.out,
                                    !.exc = IF s1.exc # "none" THEN s1.exc ELSE e]
            /\ pc' = IF s1.exc # "none" \/ e # "none" THEN "dead" ELSE next
            /\ failed' = TRUE
            /\ UNCHANGED <<cred, calls>>

\* lines 26-36: socket(), settimeout(), connect()
Connect ==
    /\ pc = "connect"
    /\ sock' = "open"
    /\ \E r \in ConnectOutcomes :
          CASE r = "ok" ->
                 InitStep(Output(Frame, "Successfully connected"), "sendOpen")
            [] r = "TimeoutError" ->
                 InitFail(Frame, "ERROR: Cannot connect", "sendOpen")
            [] OTHER ->
                 InitFail(Frame, "Unexpected Error!", "sendOpen")

OpenCommandBare(username) == Chars("open ") \o username

\* line 38
OpenCommand(username) == Chars("open \"") \o username \o Chars("\"")

SendOpen ==
    /\ pc = "sendOpen"
    /\ UNCHANGED sock
    /\ \E a \in Accept : InitStep(Send(Frame, OpenCommand(cred.username), a), "recvOpen")

\* line 39
RecvOpen ==
    /\ pc = "recvOpen"
    /\ UNCHANGED sock
    /\ \E r \in FirstReplies :
          InitStep(Output(Recv(Frame, r, DefaultBufsize), "reply"), "sendPwd")

\* line 40
SendPassword ==
    /\ pc = "sendPwd"
    /\ UNCHANGED sock
    /\ \E a \in Accept : InitStep(Send(Frame, cred.password, a), "recvPwd")

IsReadyWhole(recStr) == recStr = Chars("ready")

\* line 42
IsReady(recStr) == Slice(recStr, ReadyLen) = Chars("ready")

\* lines 41-46
RecvPassword ==
    /\ pc = "recvPwd"
    /\ UNCHANGED sock
    /\ \E r \in SecondReplies :
          LET st == Recv(Frame, r, DefaultBufsize)
          IN  IF st.exc # "none" THEN InitStep(st, "constructed")
              ELSE IF IsReady(st.ret)
                   THEN InitStep(Output(st, "User authenticated."), "constructed")
                   ELSE InitFail(st, "User authentication error", "constructed")

\* the Session State of the specification, read off the constructor's position
SessionState ==
    IF failed THEN "Failed"
    ELSE CASE pc \in {"connect", "sendOpen", "recvOpen"} -> "Connecting"
           [] pc \in {"sendPwd", "recvPwd"} -> "AwaitingPasswordPrompt"
           [] pc = "constructed" -> "Authenticated"
           [] OTHER -> "Failed"

(* --------------------------- the catalogue ----------------------------- *)

\* self.__osa.send(...) written in a catalogue method: the socket's send,
\* called past OSA.send; direct counts these calls
DirectSend(st, data, a) ==
    IF st.exc # "none" THEN st
    ELSE SockSend([st EXCEPT !.direct = @ + 1], data, a)

ResetBare(st, a) == Send(st, Chars("RST"), a)

\* line 59
Reset(st, a) == Send(st, Chars("*RST"), a)

\* line 70: the list literal; 'SINGLE' '3' is one element
SweepModes ==
    <<Chars("AUTO"), Chars("REPEAT"), Chars("SINGLE") \o Chars("3"),
      Chars("2"), Chars("1")>>

\* lines 70-74
Sweep(st, sweepMode, acc) ==
    IF Upper(sweepMode) \in Range(SweepModes)
    THEN LET s1 == DirectSend(st, Str(Chars(":INITIATE:SMODE ") \o sweepMode), acc[1])
         IN  DirectSend(s1, Str(Chars(":INITIATE")), acc[2])
    ELSE Output(st, "unsuitable sweep mode")

\* lines 82-83
Span(st, start, stop, acc) ==
    LET s1 == DirectSend(st, Str(Chars(":SENSE:WAVELENGTH:START ") \o IntToStr(start)
                                  \o Chars("NM")), acc[1])
    IN  DirectSend(s1, Str(Chars(":SENSE:WAVELENGTH:STOP ") \o IntToStr(stop)
                            \o Chars("NM")), acc[2])

\* line 122
TraceChannels == {Chars(c) : c \in {"A", "B", "C", "D", "E", "F", "G"}}

\* line 128
CalcMode == <<Chars("A-B (LOG)"), Chars("B-A (LOG)"), Chars("A+B (LOG)")>>

\* the names bound when line 129 runs: the parameters and locals of trace,
\* and the names of the module
TraceNames ==
    {"self", "channel", "write", "disp", "calcC", "switch", "calcMode",
     "socket", "OSA", "exitWin", "double2expStr"}

\* line 129: the subscript of calcMode is the name calc
CalcModeKey == "calc"

\* lines 121-129
Trace(st, channel, write, disp, calcC, acc) ==
    LET ch     == Upper(channel)
        s0     == IF ch \notin TraceChannels
                  THEN Output(st, "Unsuitable channel") ELSE st
        s1     == DirectSend(s0, Str(Chars(":TRACE:ACTIVE TR") \o ch), acc[1])
        switch == IF disp THEN Chars("ON") ELSE Chars("OFF")
        s2     == DirectSend(s1, Str(Chars(":TRACE:STATE:TR") \o ch \o Chars(" ")
                                      \o switch), acc[2])
    IN  IF calcC # 0
        THEN IF CalcModeKey \notin TraceNames THEN Raise(s2, "NameError")
             ELSE IF calcC \notin DOMAIN CalcMode THEN Raise(s2, "KeyError")
             ELSE DirectSend(s2, Str(Chars(":CALCULATE:MATH:TRC ") \o CalcMode[calcC]),
                           acc[3])
        ELSE s2

\* line 139
SaveChannels == {Chars(c) : c \in {"A", "B", "C"}}

\* lines 138-143
SaveFile(st, filename, form, channel, memory, acc) ==
    LET ch == Upper(channel)
        s0 == IF ch \notin SaveChannels
              THEN Output(st, "Unsuitable channel") ELSE st
    IN  DirectSend(s0, Str(Chars(":MMEMORY:STORE:TRACE TR") \o ch \o Chars(",") \o form
                            \o Chars("\"") \o filename \o Chars("\",") \o memory),
                 acc[1])

(* ---------------------------- double2expStr ---------------------------- *)

\* A Python number: an int, or a float written as its repr, the shortest
\* decimal that reads back as the same binary64 value; ip is the integer
\* part of the magnitude and fr its fraction digits (none for an int).
PyInt(n) == [kind |-> "int", neg |-> n < 0, ip |-> IF n < 0 THEN 0 - n ELSE n,
           fr |-> <<>>]
PyFloat(neg, ip, fr) == [kind |-> "float", neg |-> neg, ip |-> ip, fr |-> fr]

NumIsZero(x) == x.ip = 0 /\ \A i \in 1..Len(x.fr) : x.fr[i] = 0

\* x < 0
NumNegative(x) == x.neg /\ ~NumIsZero(x)

\* abs(x)
NumAbs(x) == [x EXCEPT !.neg = FALSE]

\* x < 10 and x > 10, for x >= 0
LessThan10(x) == x.ip < 10
MoreThan10(x) == x.ip > 10 \/ (x.ip = 10 /\ \E i \in 1..Len(x.fr) : x.fr[i] # 0)
AtLeast10(x) == x.ip >= 10

\* the binary64 quotients x / 10.0 (rounded to nearest) of the magnitudes the
\* model divides, each side written as its repr: <<ip, fr>> to <<ip, fr>>
FloatDiv10Table ==
    { << <<10, <<0>> >>,         <<1, <<0>> >> >>,
      << <<15, <<0>> >>,         <<1, <<5>> >> >>,
      << <<25, <<0>> >>,         <<2, <<5>> >> >>,
      << <<100, <<0>> >>,        <<10, <<0>> >> >>,
      << <<250, <<0>> >>,        <<25, <<0>> >> >>,
      << <<1000, <<0>> >>,       <<100, <<0>> >> >>,
      << <<107, <<0>> >>,        <<10, <<7>> >> >>,
      << <<10, <<7>> >>,         <<1, <<0,6,9,9,9,9,9,9,9,9,9,9,9,9,9,8>> >> >>,
      << <<1234, <<5>> >>,       <<123, <<4,5>> >> >>,
      << <<123, <<4,5>> >>,      <<12, <<3,4,5>> >> >>,
      << <<12, <<3,4,5>> >>,     <<1, <<2,3,4,5,0,0,0,0,0,0,0,0,0,0,0,2>> >> >> }

\* x / 10 for x >= 0: true division, the result is a float
FloatDiv10(x) ==
    LET key == <<x.ip, IF x.kind = "int" THEN <<0>> ELSE x.fr>>
        q   == (CHOOSE t \in FloatDiv10Table : t[1] = key)[2]
    IN  PyFloat(FALSE, q[1], q[2])

\* str(x)
NumStr(x) ==
    (IF x.neg THEN <<"-">> ELSE <<>>) \o NatToStr(x.ip) \o
    (IF x.kind = "float"
     THEN <<".">> \o [i \in 1..Len(x.fr) |-> Digits[x.fr[i] + 1]]
     ELSE <<>>)

RECURSIVE NormalizeGE(_, _, _)
NormalizeGE(digit, e, divs) ==
    IF AtLeast10(digit) THEN NormalizeGE(FloatDiv10(digit), e + 1, divs + 1)
    ELSE [digit |-> digit, e |-> e, divs |-> divs]

\* lines 160-162: the while loop; divs counts the divisions made so far
RECURSIVE Normalize(_, _, _)
Normalize(digit, e, divs) ==
    IF MoreThan10(digit) THEN Normalize(FloatDiv10(digit), e + 1, divs + 1)
    ELSE [digit |-> digit, e |-> e, divs |-> divs]

double2expStrE0(digit) ==
    LET flag == IF NumNegative(digit) THEN <<"-">> ELSE <<>>
        d    == NumAbs(digit)
    IN  IF LessThan10(d) THEN NumStr(d)
        ELSE LET r == Normalize(FloatDiv10(d), 0, 1)
             IN  flag \o NumStr(r.digit) \o <<"E">> \o IntToStr(r.e)

\* lines 153-163
double2expStr(digit) ==
    LET flag == IF NumNegative(digit) THEN <<"-">> ELSE <<>>
        d    == NumAbs(digit)
    IN  IF LessThan10(d) THEN NumStr(d)
        ELSE LET r == Normalize(FloatDiv10(d), 1, 1)
             IN  flag \o NumStr(r.digit) \o <<"E">> \o IntToStr(r.e)

\* lines 95-105
Level(st, refLevel, logScale, autoRefLevel, subLog, offsetLevel, autoSubScale, acc) ==
    LET s1 == DirectSend(st, Str(Chars(":DISPLAY:WINDOW:TRACE:Y1:SCALE:PDIVISION ")
                                 \o double2expStr(logScale)), acc[1])
        s2 == IF autoRefLevel
              THEN DirectSend(s1, Str(Chars("CALCULATE:MARKER:MAXIMUM:SRLEVEL:AUTO")),
                              acc[2])
              ELSE DirectSend(s1, Str(Chars(":DISPLAY:WINDOW:Y1:SCALE:RELVEL ")
                                      \o double2expStr(logScale)), acc[2])
        s3 == DirectSend(s2, Str(Chars(":DISPLAY:WINDOW:TRACE:Y2:SCALE:PDIVISION ")
                                 \o double2expStr(subLog)), acc[3])
    IN  IF autoSubScale
        THEN DirectSend(s3, Str(Chars(":DISPLAY:WINDOW:TRACE:Y2:SCALE:AUTO ON")), acc[4])
        ELSE LET s4 == DirectSend(s3, Str(Chars(":DISPLAY:WINDOW:TRACE:Y2:SCALE:AUTO OFF")),
                                  acc[4])
             IN  DirectSend(s4, Str(Chars(":DISPLAY:WINDOW:TRACE:Y2:SCALE:OLEVEL ")
                                    \o double2expStr(offsetLevel)), acc[5])

(* ------------------------ calls on the session ------------------------- *)

\* a method can be called on the object once OSA(...) has returned it
Callable == pc = "constructed" /\ calls < MaxCalls

CallFrame == [io |-> io, out |-> <<>>, exc |-> "none", n |-> 0, ret |-> "None",
              direct |-> 0]

\* the effect of a call of method op with arguments arg that ran to frame st
Call(op, arg, st) ==
    /\ io' = st.io
    /\ last' = [op |-> op, arg |-> arg, exc |-> st.exc, out |-> st.out,
                ret |-> IF st.exc # "none" THEN "None" ELSE st.ret,
                base |-> Len(io), direct |-> st.direct]
    /\ calls' = calls + 1
    /\ UNCHANGED <<pc, failed, cred, sock>>

SendTexts == {Chars("*RST"), Chars(""), <<EAcute>>, Chars(":INITIATE")}

SweepInputs ==
    {Chars(m) : m \in {"AUTO", "auto", "Repeat", "SINGLE", "single", "SINGLE3",
                       "2", "bogus"}}

StartInputs == {1520, 0, 0 - 5}
StopInputs  == {1600, 7}

ChannelInputs == {Chars(c) : c \in {"A", "g", "H"}}

\* write, which trace never reads, keeps its default
WriteInputs == {TRUE}

FileInputs == {Chars("t1")}
FormInputs == {Chars("CSV"), Chars("BIN")}
MemoryInputs == {Chars("EXT"), Chars("INT")}

CallSend ==
    /\ Callable
    /\ \E t \in SendTexts, a \in Accept : Call("send", <<t>>, Send(CallFrame, t, a))

CallReset ==
    /\ Callable
    /\ \E a \in Accept : Call("reset", <<>>, Reset(CallFrame, a))

CallSweep ==
    /\ Callable
    /\ \E m \in SweepInputs, acc \in AcceptPlans(2) :
          Call("sweep", <<m>>, Sweep(CallFrame, m, acc))

CallSpan ==
    /\ Callable
    /\ \E start \in StartInputs, stop \in StopInputs, acc \in AcceptPlans(2) :
          Call("span", <<start, stop>>, Span(CallFrame, start, stop, acc))

CallTrace ==
    /\ Callable
    /\ \E ch \in ChannelInputs, write \in WriteInputs, disp \in BOOLEAN, calcC \in 0..3,
          acc \in AcceptPlans(3) :
          Call("trace", <<ch, write, disp, calcC>>,
               Trace(CallFrame, ch, write, disp, calcC, acc))

CallSaveFile ==
    /\ Callable
    /\ \E f \in FileInputs, form \in FormInputs, ch \in ChannelInputs,
          m \in MemoryInputs, acc \in AcceptPlans(1) :
          Call("saveFile", <<f, form, ch, m>>,
               SaveFile(CallFrame, f, form, ch, m, acc))

NumberInputs ==
    {PyFloat(FALSE, 5, <<0>>), PyFloat(TRUE, 5, <<0>>), PyInt(0), PyFloat(FALSE, 9, <<9>>),
     PyFloat(FALSE, 10, <<0>>), PyFloat(TRUE, 10, <<0>>), PyFloat(TRUE, 15, <<0>>),
     PyInt(100), PyFloat(FALSE, 107, <<0>>), PyFloat(FALSE, 1234, <<5>>),
     PyFloat(TRUE, 250, <<0>>), PyFloat(FALSE, 1000, <<0>>)}

\* a call of the module's function double2expStr
CallDouble2expStr ==
    /\ Callable
    /\ \E v \in NumberInputs :
          Call("double2expStr", <<v>>, [CallFrame EXCEPT !.ret = double2expStr(v)])

RecvInputs == {RecvTimeout, RecvData(<<>>), RecvData(Encode(Chars("ok")))}

CallRecv ==
    /\ Callable
    /\ \E r \in RecvInputs : Call("recv", <<>>, Recv(CallFrame, r, DefaultBufsize))

\* the numeric arguments of level keep their defaults -10.0, 10.0, 5.0, 0
RefLevelInputs == {PyFloat(TRUE, 10, <<0>>)}
LogScaleInputs == {PyFloat(FALSE, 10, <<0>>)}
SubLogInputs == {PyFloat(FALSE, 5, <<0>>)}
OffsetLevelInputs == {PyInt(0)}

CallLevel ==
    /\ Callable
    /\ \E refLevel \in RefLevelInputs, logScale \in LogScaleInputs,
          autoRefLevel \in BOOLEAN, subLog \in SubLogInputs,
          offsetLevel \in OffsetLevelInputs, autoSubScale \in BOOLEAN,
          acc \in AcceptPlans(5) :
          Call("level",
               <<refLevel, logScale, autoRefLevel, subLog, offsetLevel, autoSubScale>>,
               Level(CallFrame, refLevel, logScale, autoRefLevel, subLog, offsetLevel,
                     autoSubScale, acc))

Next ==
    \/ Connect
    \/ SendOpen
    \/ RecvOpen
    \/ SendPassword
    \/ RecvPassword
    \/ CallSend
    \/ CallReset
    \/ CallSweep
    \/ CallSpan
    \/ CallTrace
    \/ CallSaveFile
    \/ CallDouble2expStr
    \/ CallRecv
    \/ CallLevel

Spec == Init /\ [][Next]_vars

(* ------------------------------ properties ----------------------------- *)

\* the events of io of one kind
Events(kind) == SelectSeq(io, LAMBDA e : e.ev = kind)

\* the buffers handed to the transport by the last call, in order
Delivered == [i \in 1..(Len(io) - last.base) |-> io[last.base + i].of]

Reported(msg) == \E i \in 1..Len(last.out) : last.out[i] = msg

\* the handshake has received the reply to the password
PasswordReplied == Len(Events("recv")) >= 2

PasswordReply == Events("recv")[2].text

StartsWithReady(t) ==
    /\ Len(t) >= 5
    /\ <<t[1], t[2], t[3], t[4], t[5]>> = <<"r", "e", "a", "d", "y">>

\* C1: once the reply to the password has been received, the session is
\* Authenticated (the constructor has returned) exactly when the reply's
\* first 5 characters are 'ready'; for every other reply, shorter ones and
\* the empty one included, it is Failed, the authentication error has been
\* reported and the constructor has not returned.
C1_ReadyDecides ==
    PasswordReplied =>
        IF StartsWithReady(PasswordReply)
        THEN SessionState = "Authenticated" /\ pc = "constructed"
        ELSE /\ SessionState = "Failed"
             /\ pc = "dead"
             /\ last.op = "__init__"
             /\ last.exc # "none"
             /\ last.out[Len(last.out)] = "User authentication error"

C1_Witness ==
    /\ PasswordReplied
    /\ PasswordReply = <<"r", "e", "a", "d">>
    /\ pc = "dead"

ExpectedOpen(username) == <<"o", "p", "e", "n", " ", "\"">> \o username \o <<"\"">>

\* C2: while the session is being constructed the traffic is a prefix of:
\* send 'open "<username>"', receive, send the password as given, receive;
\* the constructor returns only after all four; and whatever the first reply
\* says, the constructor goes on to send the password (nothing but a failure
\* of that send stops it).
C2_HandshakeOrder ==
    calls = 0 =>
        /\ Len(io) <= 4
        /\ Len(io) >= 1 => io[1].ev = "send" /\ io[1].of = Encode(ExpectedOpen(cred.username))
        /\ Len(io) >= 2 => io[2].ev = "recv"
        /\ Len(io) >= 3 => io[3].ev = "send" /\ io[3].of = Encode(cred.password)
        /\ Len(io) >= 4 => io[4].ev = "recv"
        /\ Len(io) = 2 =>
              \/ pc = "sendPwd" /\ ~failed /\ last.exc = "none"
              \/ pc = "dead" /\ last.exc = "OSError"
        /\ pc = "constructed" => Len(io) = 4
        /\ pc = "recvPwd" => Len(io) = 3

C2_Witness ==
    /\ calls = 0
    /\ pc = "constructed"
    /\ Len(io) = 4
    /\ io[2].text = <<"r", "e", "a", "d", "y">>
    /\ cred.username = <<"j", EAcute>>

\* C3: a buffer is written to the transport only in state Authenticated, or,
\* in Connecting and AwaitingPasswordPrompt, when it is the open command or
\* the password; nothing is written in Failed.
C3_WritesOnlyWhenAuthenticated ==
    [][Events("send")' # Events("send") =>
          LET e == io'[Len(io')]
          IN  \/ SessionState = "Authenticated"
              \/ /\ SessionState \in {"Connecting", "AwaitingPasswordPrompt"}
                 /\ last'.op = "__init__"
                 /\ e.of \in {Encode(ExpectedOpen(cred.username)), Encode(cred.password)}]_vars

C3_Witness ==
    /\ SessionState = "Authenticated"
    /\ last.op = "reset"
    /\ Len(Delivered) = 1
    /\ Delivered[1] = <<"*", "R", "S", "T">>

ConnectFailed ==
    /\ last.op = "__init__"
    /\ Len(last.out) >= 1
    /\ last.out[1] \in {"ERROR: Cannot connect", "Unexpected Error!"}

\* C4: when connect fails the session is Failed, the constructor ends with
\* an error instead of returning, connect is not tried again and nothing is
\* sent or received.
C4_ConnectFailureIsFatal ==
    ConnectFailed =>
        /\ SessionState = "Failed"
        /\ pc = "dead"
        /\ last.exc # "none"
        /\ Len(last.out) = 1
        /\ io = <<>>

C4_Witness ==
    /\ ConnectFailed
    /\ last.out[1] = "ERROR: Cannot connect"
    /\ last.exc = "SystemExit"

\* C5: a call of send that did not raise tells its caller of a short write,
\* by its result or its report, exactly when the transport took fewer bytes
\* than the encoded command has.
C5_ShortWriteIndicated ==
    (last.op = "send" /\ last.exc = "none") =>
        LET e == io[Len(io)]
        IN  (Len(e.sent) < Len(e.of)) <=>
                (last.ret = "short" \/ Reported("Command sent uncompletely"))

ValidSweepModes == {<<"A", "U", "T", "O">>, <<"R", "E", "P", "E", "A", "T">>,
                    <<"S", "I", "N", "G", "L", "E">>}

\* C6: sweep with a mode that is not AUTO, REPEAT or SINGLE in any letter
\* case reports 'unsuitable sweep mode' and hands nothing to the transport.
C6_InvalidSweepRejected ==
    (last.op = "sweep" /\ Upper(last.arg[1]) \notin ValidSweepModes) =>
        /\ Reported("unsuitable sweep mode")
        /\ Len(io) = last.base

\* C7: sweep with AUTO, REPEAT or SINGLE in any letter case is not rejected
\* and, unless the transport fails, delivers ':INITIATE:SMODE <mode>' and
\* then ':INITIATE', and nothing else.
C7_ValidSweepSendsTwo ==
    (last.op = "sweep" /\ Upper(last.arg[1]) \in ValidSweepModes) =>
        /\ ~Reported("unsuitable sweep mode")
        /\ last.exc \in {"none", "OSError"}
        /\ last.exc = "none" =>
              Delivered = <<Encode(Chars(":INITIATE:SMODE ") \o last.arg[1]),
                            Encode(Chars(":INITIATE"))>>

\* C8: span(start, stop), unless the transport fails, delivers exactly two
\* commands, the first containing '<start>NM', the second '<stop>NM'.
C8_SpanSendsStartStop ==
    last.op = "span" =>
        /\ last.exc \in {"none", "OSError"}
        /\ last.exc = "none" =>
              /\ Len(Delivered) = 2
              /\ Contains(Delivered[1], Encode(IntToStr(last.arg[1]) \o <<"N", "M">>))
              /\ Contains(Delivered[2], Encode(IntToStr(last.arg[2]) \o <<"N", "M">>))

ExpectedMath == <<Chars("A-B"), Chars("B-A"), Chars("A+B")>>

\* C9: trace, unless the transport fails, completes normally having
\* delivered the select-active-channel command, then the display-state
\* command with ON for disp and OFF otherwise, then for calcC in 1..3 the
\* trace-math command of calcC, and for calcC = 0 nothing more.
C9_TraceSendsInOrder ==
    last.op = "trace" =>
        /\ last.exc \in {"none", "OSError"}
        /\ last.exc = "none" =>
              LET ch    == Upper(last.arg[1])
                  disp  == last.arg[3]
                  calcC == last.arg[4]
              IN  /\ Len(Delivered) = IF calcC = 0 THEN 2 ELSE 3
                  /\ Delivered[1] = Encode(Chars(":TRACE:ACTIVE TR") \o ch)
                  /\ Delivered[2] = Encode(Chars(":TRACE:STATE:TR") \o ch \o
                                           (IF disp THEN Chars(" ON") ELSE Chars(" OFF")))
                  /\ calcC # 0 =>
                        /\ Contains(Delivered[3], Encode(Chars(":CALCULATE:MATH:TRC ")))
                        /\ Contains(Delivered[3], Encode(ExpectedMath[calcC]))

\* C10: trace with a channel outside A..G and saveFile with a channel outside
\* A..C report 'Unsuitable channel' and, unless the transport fails, still
\* deliver their commands, which name that channel; saveFile delivers exactly
\* one command whatever the channel.
C10_InvalidChannelFallsThrough ==
    /\ (last.op = "trace" /\ Upper(last.arg[1]) \notin TraceChannels) =>
          /\ Reported("Unsuitable channel")
          /\ last.exc \in {"none", "OSError"}
          /\ last.exc = "none" =>
                /\ Len(Delivered) >= 2
                /\ \A i \in 1..2 :
                      Contains(Delivered[i], Encode(Chars("TR") \o Upper(last.arg[1])))
    /\ last.op = "saveFile" =>
          /\ Upper(last.arg[3]) \notin SaveChannels => Reported("Unsuitable channel")
          /\ last.exc \in {"none", "OSError"}
          /\ last.exc = "none" =>
                /\ Len(Delivered) = 1
                /\ Contains(Delivered[1], Encode(Chars(":MMEMORY:STORE:TRACE TR")
                                                    \o Upper(last.arg[3])))
\* C11: for |v| < 10, negative v included, double2expStr(v) has no 'E' and
\* is '-' for a negative v, nothing otherwise, followed by str(|v|).
C11_SmallKeepsSign ==
    (last.op = "double2expStr" /\ last.arg[1].ip < 10) =>
        LET v == last.arg[1]
        IN  /\ ~Contains(last.ret, <<"E">>)
            /\ last.ret = (IF NumNegative(v) THEN <<"-">> ELSE <<>>) \o NumStr(NumAbs(v))

\* the mantissa and exponent the loop ends with for the magnitude of v
Normalized(v) == Normalize(FloatDiv10(NumAbs(v)), 1, 1)

\* C19: for |v| >= 10 the loop ends with a mantissa m, 1 <= m <= 10, and an
\* exponent equal to the number of divisions made, at least 1; a magnitude of
\* exactly 10 after a division is left as it is: 100 gives mantissa 10.0 and
\* exponent 1.
C19_LoopBoundary ==
    (last.op = "double2expStr" /\ last.arg[1].ip >= 10) =>
        LET v == last.arg[1]
            r == Normalized(v)
        IN  /\ r.digit.ip >= 1
            /\ ~MoreThan10(r.digit)
            /\ r.e = r.divs
            /\ r.e >= 1
            /\ Contains(last.ret, NumStr(r.digit) \o <<"E">> \o IntToStr(r.divs))
            /\ (v.ip = 100 /\ NumIsZero([v EXCEPT !.ip = 0])) =>
                  last.ret = <<"1", "0", ".", "0", "E", "1">>

C19_Witness ==
    /\ last.op = "double2expStr"
    /\ last.arg[1] = PyInt(100)
    /\ last.ret = <<"1", "0", ".", "0", "E", "1">>

(* Exact decimal arithmetic for reading an encoded value back: a decimal is  *)
(* a vector of IntWidth integer digits followed by FracWidth fraction digits *)
IntWidth == 8
FracWidth == 22
VecLen == IntWidth + FracWidth

RECURSIVE Pow10(_)
Pow10(k) == IF k = 0 THEN 1 ELSE 10 * Pow10(k - 1)

Vec(ip, fr) ==
    [i \in 1..VecLen |->
        IF i <= IntWidth THEN (ip \div Pow10(IntWidth - i)) % 10
        ELSE IF i - IntWidth <= Len(fr) THEN fr[i - IntWidth] ELSE 0]

\* a * 10^k and a / 10^k (truncated)
ShiftLeft(a, k)  == [i \in 1..VecLen |-> IF i + k <= VecLen THEN a[i + k] ELSE 0]
ShiftRight(a, k) == [i \in 1..VecLen |-> IF i - k >= 1 THEN a[i - k] ELSE 0]

VecLessEq(a, b) ==
    \/ a = b
    \/ \E i \in 1..VecLen : a[i] < b[i] /\ \A j \in 1..(i - 1) : a[j] = b[j]

RECURSIVE Borrow(_, _, _)
Borrow(a, b, i) ==
    IF i = VecLen THEN 0
    ELSE IF a[i + 1] - b[i + 1] - Borrow(a, b, i + 1) < 0 THEN 1 ELSE 0

\* a - b for a >= b
VecSub(a, b) == [i \in 1..VecLen |-> (a[i] - b[i] - Borrow(a, b, i) + 10) % 10]

VecDist(a, b) == IF VecLessEq(a, b) THEN VecSub(b, a) ELSE VecSub(a, b)

RECURSIVE Carry(_, _, _)
Carry(a, n, i) ==
    IF i = VecLen THEN 0 ELSE (a[i + 1] * n + Carry(a, n, i + 1)) \div 10

\* a * n for a small n
VecMul(a, n) == [i \in 1..VecLen |-> (a[i] * n + Carry(a, n, i)) % 10]

DigitOf(c) == CHOOSE d \in 0..9 : Digits[d + 1] = c

RECURSIVE ParseNat(_)
ParseNat(t) ==
    IF t = <<>> THEN 0 ELSE 10 * ParseNat(SubSeq(t, 1, Len(t) - 1)) + DigitOf(t[Len(t)])

IndexOf(t, c) == CHOOSE i \in 1..Len(t) : t[i] = c /\ \A j \in 1..(i - 1) : t[j] # c

\* an encoded value sign + mantissa + 'E' + exponent, taken apart
HasExpForm(t) ==
    LET body == IF t # <<>> /\ t[1] = "-" THEN Tail(t) ELSE t
    IN  /\ Contains(body, <<"E">>)
        /\ LET k == IndexOf(body, "E")
               m == SubSeq(body, 1, k - 1)
               x == SubSeq(body, k + 1, Len(body))
           IN  /\ x # <<>>
               /\ \A i \in 1..Len(x) : x[i] \in Range(Digits)
               /\ Contains(m, <<".">>)
               /\ \A i \in 1..Len(m) : m[i] \in Range(Digits) \/ m[i] = "."

ExpSign(t) == IF t[1] = "-" THEN "-" ELSE ""
ExpBody(t) == IF t[1] = "-" THEN Tail(t) ELSE t
ExpExponent(t) ==
    LET body == ExpBody(t)
    IN  ParseNat(SubSeq(body, IndexOf(body, "E") + 1, Len(body)))
ExpMantissa(t) ==
    LET body == ExpBody(t)
        m    == SubSeq(body, 1, IndexOf(body, "E") - 1)
        dot  == IndexOf(m, ".")
        fr   == SubSeq(m, dot + 1, Len(m))
    IN  Vec(ParseNat(SubSeq(m, 1, dot - 1)), [i \in 1..Len(fr) |-> DigitOf(fr[i])])

\* mantissa * 10^exponent of an encoded value
Decoded(t) == ShiftLeft(ExpMantissa(t), ExpExponent(t))

Magnitude(v) == Vec(v.ip, v.fr)

LargeEncoded == last.op = "double2expStr" /\ last.arg[1].ip >= 10

\* C12 as claimed: for |v| >= 10 the result is sign + mantissa + 'E' +
\* exponent, the sign '-' exactly for a negative v, and mantissa * 10^exponent
\* equals |v|.
C12_DecodesExactly ==
    LargeEncoded =>
        /\ HasExpForm(last.ret)
        /\ (ExpSign(last.ret) = "-") <=> NumNegative(last.arg[1])
        /\ Decoded(last.ret) = Magnitude(last.arg[1])

\* 1.2 * 10^-16, above the unit roundoff 2^-53 of binary64, is 12 / 10^17
RoundoffNum == 12
RoundoffExp == 17

\* C12 as amended: for |v| >= 10 the result is sign + mantissa + 'E' +
\* exponent, the sign '-' exactly for a negative v, and mantissa * 10^exponent
\* is |v| up to the rounding of the exponent-many divisions and of str():
\* it differs from |v| by at most (exponent + 1) * 1.2e-16 * |v|.
C12_DecodesWithinRounding ==
    LargeEncoded =>
        /\ HasExpForm(last.ret)
        /\ (ExpSign(last.ret) = "-") <=> NumNegative(last.arg[1])
        /\ LET v == Magnitude(last.arg[1])
               n == ExpExponent(last.ret) + 1
           IN  VecLessEq(ShiftLeft(VecDist(Decoded(last.ret), v), 1),
                         ShiftRight(VecMul(v, RoundoffNum * n), RoundoffExp - 1))

C12_Witness ==
    /\ LargeEncoded
    /\ last.arg[1] = PyFloat(FALSE, 107, <<0>>)
    /\ Decoded(last.ret) # Magnitude(last.arg[1])
    /\ ExpExponent(last.ret) = 2

\* C13: a read of zero bytes, the peer having closed the connection, is
\* never handed on as an empty reply: no reply received in the handshake or
\* returned by recv is the empty text.
C13_EmptyReadRaises ==
    /\ \A i \in 1..Len(io) : io[i].ev = "recv" => io[i].text # <<>>
    /\ (last.op = "recv" /\ last.exc = "none") => last.ret # <<>>

\* C14: reset hands the transport one buffer, the bytes of '*RST', after
\* the two handshake messages; what the transport takes of it is all of it
\* whenever the write is reported complete.
C14_ResetSendsRST ==
    (last.op = "reset" /\ last.exc = "none") =>
        /\ Len(io) = last.base + 1
        /\ LET e == io[Len(io)]
           IN  /\ e.ev = "send"
               /\ e.of = <<"*", "R", "S", "T">>
               /\ e.sent = SubSeq(e.of, 1, Len(e.sent))
               /\ Reported("Command sent successfully") => e.sent = <<"*", "R", "S", "T">>
        /\ calls = 1 => Len(Events("send")) = 3

C14_Witness ==
    /\ last.op = "reset"
    /\ calls = 1
    /\ Len(Events("send")) = 3
    /\ io[Len(io)].sent = <<"*", "R", "S", "T">>

CatalogueOps == {"reset", "sweep", "span", "level", "trace", "saveFile"}

\* C15: no catalogue operation calls the socket's send itself; its commands
\* go through OSA.send, which encodes them.
C15_SingleChokepoint ==
    last.op \in CatalogueOps => last.direct = 0 /\ last.exc # "TypeError"

\* C16: a call of send makes one transport write; when that write is short
\* nothing is sent again, nothing is raised and the session state stays as
\* it is: in the handshake the constructor goes on to the next receive.
C16_ShortWriteInformational ==
    [][(Len(io') > Len(io) /\ io'[Len(io')].ev = "send") =>
          LET e == io'[Len(io')]
          IN  /\ Len(io') = Len(io) + 1
              /\ SubSeq(io', 1, Len(io)) = io
              /\ Len(e.sent) < Len(e.of) =>
                    /\ last'.exc = "none"
                    /\ SessionState' = SessionState
                    /\ pc = "sendOpen" => pc' = "recvOpen"
                    /\ pc = "sendPwd" => pc' = "recvPwd"]_vars

C16_Witness ==
    /\ pc = "constructed"
    /\ calls = 0
    /\ Len(io[1].sent) < Len(io[1].of)
    /\ Len(io[3].sent) < Len(io[3].of)

Rank(state) ==
    CASE state = "Connecting" -> 1
      [] state = "AwaitingPasswordPrompt" -> 2
      [] OTHER -> 3

OpenSends == SelectSeq(io, LAMBDA e : e.ev = "send" /\ e.of = Encode(ExpectedOpen(cred.username)))
PasswordSends == SelectSeq(io, LAMBDA e : e.ev = "send" /\ e.of = Encode(cred.password))

\* C17: the session state only moves forward, Connecting, then
\* AwaitingPasswordPrompt, then Authenticated or Failed, which are final; a
\* failed session has stopped for good, with nothing sent or received after
\* the failure; the open command and the password are sent at most once.
C17_FailureIsTerminal ==
    [][/\ Rank(SessionState') >= Rank(SessionState)
       /\ SessionState \in {"Authenticated", "Failed"} => SessionState' = SessionState
       /\ SessionState = "Failed" => io' = io
       /\ SessionState' = "Failed" => pc' = "dead" /\ last'.exc # "none"
       /\ calls' = 0 => Len(OpenSends') <= 1 /\ Len(PasswordSends') <= 1]_vars

C17_Witness ==
    /\ SessionState = "Failed"
    /\ last.exc = "timeout"
    /\ Len(io) = 3

\* C18: whenever the session is Failed the socket has been closed.
C18_SocketReleased == SessionState = "Failed" => sock = "closed"

LevelExpected(refLevel, logScale, autoRefLevel, subLog, offsetLevel, autoSubScale) ==
    <<Chars(":DISPLAY:WINDOW:TRACE:Y1:SCALE:PDIVISION ") \o double2expStr(logScale)>>
    \o (IF autoRefLevel
        THEN <<Chars("CALCULATE:MARKER:MAXIMUM:SRLEVEL:AUTO")>>
        ELSE <<Chars(":DISPLAY:WINDOW:Y1:SCALE:RELVEL ") \o double2expStr(refLevel)>>)
    \o <<Chars(":DISPLAY:WINDOW:TRACE:Y2:SCALE:PDIVISION ") \o double2expStr(subLog)>>
    \o (IF autoSubScale
        THEN <<Chars(":DISPLAY:WINDOW:TRACE:Y2:SCALE:AUTO ON")>>
        ELSE <<Chars(":DISPLAY:WINDOW:TRACE:Y2:SCALE:AUTO OFF"),
               Chars(":DISPLAY:WINDOW:TRACE:Y2:SCALE:OLEVEL ") \o double2expStr(offsetLevel)>>)

\* C20: level, unless the transport fails, delivers the main per-division
\* command with the encoded logScale, then the automatic reference-level
\* command or the manual one with the encoded refLevel, then the sub-scale
\* per-division command with the encoded subLog, then AUTO ON, or AUTO OFF
\* and the offset-level command with the encoded offsetLevel.
C20_LevelCommands ==
    last.op = "level" =>
        /\ last.exc \in {"none", "OSError"}
        /\ last.exc = "none" =>
              LET x == LevelExpected(last.arg[1], last.arg[2], last.arg[3],
                                     last.arg[4], last.arg[5], last.arg[6])
              IN  Delivered = [i \in 1..Len(x) |-> Encode(x[i])]
====
